---- MODULE Spec2Model ----
(***************************************************************************)
(* Model of the embedding-viz pipeline (cluster.py, phylogeny.py).         *)
(*                                                                         *)
(* Numbers.  Embedding components are fixed-point hundredths, so a         *)
(* similarity (a dot product) is in ten-thousandths: 0.85 is 8500.         *)
(* Timestamps are integer seconds.  A distance is kept exactly as a        *)
(* record [inf, q, r] that stands for                                      *)
(*     q/10000 + r/(10000*TEMPORAL_THRESHOLD),  0 <= r < TEMPORAL_THRESHOLD*)
(* so that the fallback distance 1000 and the temporal penalty             *)
(* (time_diff / TEMPORAL_THRESHOLD) * 0.01 are both exact and compare      *)
(* without overflow.  Indices are 1-based; the code's parent sentinel -1   *)
(* is kept.                                                                *)
(*                                                                         *)
(* The date strings (strftime) of nodes and species are not modelled.      *)
(***************************************************************************)
EXTENDS Integers, Sequences, FiniteSets, TLC

VARIABLES
    pc,           \* position of the run
    items,        \* data["items"]: sequence of [id, timestamp, embedding, cluster]
    similarity,   \* result of compute_similarity_matrix
    distances,    \* result of build_constrained_graph
    internals,    \* locals of build_phylogeny_tree: fallback, mst, visited, parent, root_idx
    phylogeny,    \* result of build_phylogeny_tree: [nodes, root_id]
    clusters,     \* the cluster records: sequence of [id, label, centroid, size]
    species,      \* result of generate_species
    mode,         \* "image" or "text"
    env,          \* what the clustering run finds: model loaded, torch importable, files readable
    coords,       \* result of run_umap
    labels,       \* result of clusterer.fit_predict
    label,        \* result of a label function called on its own
    files,        \* the disk: the JSON documents under data/ and frontend/public/data/
    data          \* the header of the document a stage loaded

vars == <<pc, items, similarity, distances, internals, phylogeny,
          clusters, species, mode, env, coords, labels, label, files, data>>

phyloVars == <<similarity, distances, internals, phylogeny>>

diskVars == <<files, data>>

clusterVars == <<mode, env, coords, labels, label, diskVars>>

-----------------------------------------------------------------------------
(* Bounds and input domains *)

MaxN == 3

Names == <<"a", "b", "c", "d", "e", "f", "g", "h">>

Day == 24 * 60 * 60

\* 0, 30 days and 40 days: differences of 0 and 10 days (close), exactly
\* 30 days (the boundary) and 40 days (far).
Timestamps == {0, 30 * Day, 40 * Day}

\* Embeddings as the provider writes them: unit vectors up to rounding.
\* Against <<100, 0>> they give the similarities 1.0 (a duplicate), exactly
\* 0.85 (the boundary), 0.9 (similar) and 0.5 (dissimilar); a duplicate of one
\* of the others has a similarity just above 1, as rounding produces.
Embeddings == {<<100, 0>>, <<85, 53>>, <<90, 44>>, <<50, 87>>}

NoneId == "None"

-----------------------------------------------------------------------------
(* phylogeny.py constants *)

TEMPORAL_THRESHOLD == 30 * 24 * 60 * 60

SIMILARITY_THRESHOLD == 8500

\* the literal 1 of "1 - sim", in ten-thousandths
ONE == 10000

\* the literal 0.01 of the temporal penalty, in ten-thousandths
PENALTY == 100

\* the literal 1000 of distances_fallback, as a whole number
FALLBACK_DISTANCE == 1000

-----------------------------------------------------------------------------
(* Exact distances *)

INF == [inf |-> TRUE, q |-> 0, r |-> 0]

ZERO == [inf |-> FALSE, q |-> 0, r |-> 0]

Fin(q, r) == [inf |-> FALSE, q |-> q, r |-> r]

\* a + b for finite a, b
Add(a, b) ==
    Fin(a.q + b.q + ((a.r + b.r) \div TEMPORAL_THRESHOLD),
        (a.r + b.r) % TEMPORAL_THRESHOLD)

\* a < b for finite a, b
Less(a, b) == a.q < b.q \/ (a.q = b.q /\ a.r < b.r)

\* x > 0 on a float: inf > 0 is true
Positive(a) == a.inf \/ a.q > 0 \/ (a.q = 0 /\ a.r > 0)

Abs(x) == IF x < 0 THEN -x ELSE x

Min2(a, b) == IF a <= b THEN a ELSE b

Max2(a, b) == IF a <= b THEN b ELSE a

-----------------------------------------------------------------------------
(* compute_similarity_matrix *)

RECURSIVE DotFrom(_, _, _)
DotFrom(u, v, k) == IF k > Len(u) THEN 0 ELSE u[k] * v[k] + DotFrom(u, v, k + 1)

Dot(u, v) == DotFrom(u, v, 1)

\* similarity = embeddings @ embeddings.T
compute_similarity_matrix(embeddings) ==
    [i \in DOMAIN embeddings |-> [j \in DOMAIN embeddings |->
        Dot(embeddings[i], embeddings[j])]]

ItemEmbeddings(its) == [i \in DOMAIN its |-> its[i].embedding]

-----------------------------------------------------------------------------
(* build_constrained_graph *)

TemporallyClose(time_diff) == time_diff < TEMPORAL_THRESHOLD

\* a wrong comparison: the boundary similarity counts as highly similar
HighlySimilar_Inclusive(sim) == sim >= SIMILARITY_THRESHOLD

HighlySimilar(sim) == sim > SIMILARITY_THRESHOLD

\* a wrong weight: the temporal penalty is left out
EdgeWeight_NoPenalty(sim, time_diff) == Fin(ONE - sim, 0)

\* dist = 1 - sim; dist += (time_diff / TEMPORAL_THRESHOLD) * 0.01
EdgeWeight(sim, time_diff) ==
    LET whole == time_diff \div TEMPORAL_THRESHOLD
        part  == PENALTY * (time_diff % TEMPORAL_THRESHOLD)
    IN Fin((ONE - sim) + PENALTY * whole + (part \div TEMPORAL_THRESHOLD),
           part % TEMPORAL_THRESHOLD)

\* the value written to distances[i, j] and distances[j, i] for i < j
PairDistance(sim, time_diff) ==
    IF TemporallyClose(time_diff) \/ HighlySimilar(sim)
    THEN EdgeWeight(sim, time_diff)
    ELSE INF

build_constrained_graph(sim, timestamps) ==
    LET n == Len(timestamps) IN
    [i \in 1..n |-> [j \in 1..n |->
        IF i = j THEN INF
        ELSE LET a == Min2(i, j)
                 b == Max2(i, j)
             IN PairDistance(sim[a][b], Abs(timestamps[a] - timestamps[b]))]]

-----------------------------------------------------------------------------
(* build_phylogeny_tree *)

\* a wrong fallback: missing edges stay infinite
FallbackEntry_Missing(d) == d

\* distances_fallback[distances_fallback == np.inf] = 1000
FallbackEntry(d) == IF d.inf THEN Fin(FALLBACK_DISTANCE * ONE, 0) ELSE d

FallbackDistances(d) ==
    [i \in DOMAIN d |-> [j \in DOMAIN d[i] |-> FallbackEntry(d[i][j])]]

\* scipy reads a dense matrix as a graph: zero, inf and self entries are no edges
IsGraphEdge(d) == ~d.inf /\ d # ZERO

GraphEdges(m) ==
    {e \in (DOMAIN m) \X (DOMAIN m) : e[1] < e[2] /\ IsGraphEdge(m[e[1]][e[2]])}

RECURSIVE Closure(_, _)
Closure(F, S) ==
    LET S2 == S \cup {e[2] : e \in {f \in F : f[1] \in S}}
                \cup {e[1] : e \in {f \in F : f[2] \in S}}
    IN IF S2 = S THEN S ELSE Closure(F, S2)

NumComponents(F, n) == Cardinality({Closure(F, {v}) : v \in 1..n})

\* edge e comes after edge f in the order of the pairs
After(e, f) == e[1] > f[1] \/ (e[1] = f[1] /\ e[2] > f[2])

\* Kruskal's algorithm from the forest F: an edge of least weight among those
\* that join two components of F is added, until none joins any.  Edges of
\* equal weight are added in the order of the pairs, which reaches every
\* result once.
RECURSIVE Kruskal(_, _, _, _)
Kruskal(E, F, last, m) ==
    LET joining == {e \in E : e[2] \notin Closure(F, {e[1]})}
        light   == {e \in joining :
                       \A g \in joining : ~Less(m[g[1]][g[2]], m[e[1]][e[2]])}
        next    == {e \in light :
                       last = <<>> \/ m[e[1]][e[2]] # m[last[1]][last[2]] \/ After(e, last)}
    IN IF joining = {} THEN {F}
       ELSE UNION {Kruskal(E, F \cup {e}, e, m) : e \in next}

\* minimum_spanning_tree: every spanning forest of minimum total weight is a
\* possible result (the order of equal weights in the library's argsort is
\* not specified)
MinimumSpanningTrees(m) == Kruskal(GraphEdges(m), {}, <<>>, m)

\* mst_symmetric = mst_array + mst_array.T
MstSymmetric(F, m) ==
    [i \in DOMAIN m |-> [j \in DOMAIN m |->
        IF <<Min2(i, j), Max2(i, j)>> \in F THEN m[i][j] ELSE ZERO]]

SeqMin(s) == CHOOSE x \in {s[i] : i \in DOMAIN s} : \A j \in DOMAIN s : x <= s[j]

\* a wrong argmin: the last index holding the minimum
ArgMin_Last(s) == CHOOSE i \in DOMAIN s : s[i] = SeqMin(s) /\ \A j \in (i + 1)..Len(s) : s[j] # SeqMin(s)

\* np.argmin: the first index holding the minimum
ArgMin(s) == CHOOSE i \in DOMAIN s : s[i] = SeqMin(s) /\ \A j \in 1..(i - 1) : s[j] # SeqMin(s)

RECURSIVE SortedSeq(_)
SortedSeq(S) ==
    IF S = {} THEN <<>>
    ELSE LET x == CHOOSE y \in S : \A z \in S : y <= z
         IN <<x>> \o SortedSeq(S \ {x})

\* for neighbor in range(n): if mst_symmetric[node, neighbor] > 0 and not visited[neighbor]
Discovered(node, visited, ms) ==
    {nb \in DOMAIN ms : Positive(ms[node][nb]) /\ ~visited[nb]}

RECURSIVE Bfs(_, _, _, _)
Bfs(queue, visited, parent, ms) ==
    IF queue = <<>> THEN [visited |-> visited, parent |-> parent]
    ELSE LET node == Head(queue)
             new  == Discovered(node, visited, ms)
         IN Bfs(Tail(queue) \o SortedSeq(new),
                [i \in DOMAIN visited |-> visited[i] \/ i \in new],
                [i \in DOMAIN parent |-> IF i \in new THEN node ELSE parent[i]],
                ms)

\* a wrong fallback: unreached nodes keep the sentinel
ForceAttach_Skipped(visited, parent, root_idx) == parent

\* for i in range(n): if not visited[i]: parent[i] = root_idx
ForceAttach(visited, parent, root_idx) ==
    [i \in DOMAIN parent |-> IF ~visited[i] THEN root_idx ELSE parent[i]]

ItemTimestamps(its) == [i \in DOMAIN its |-> its[i].timestamp]

\* "parent": items[parent[i]]["id"] if parent[i] >= 0 else None
NodeParent(its, p) == IF p >= 1 THEN its[p].id ELSE NoneId

BuildNodes(its, parent) ==
    [i \in DOMAIN its |->
        [id        |-> its[i].id,
         parent    |-> NodeParent(its, parent[i]),
         timestamp |-> its[i].timestamp,
         cluster   |-> its[i].cluster]]

\* the locals of build_phylogeny_tree once the spanning tree F is chosen
TreeInternals(d, its, F) ==
    LET n        == Len(its)
        fb       == FallbackDistances(d)
        root_idx == ArgMin(ItemTimestamps(its))
        ms       == MstSymmetric(F, fb)
        bfs      == Bfs(<<root_idx>>,
                        [i \in 1..n |-> i = root_idx],
                        [i \in 1..n |-> -1],
                        ms)
    IN [fallback |-> fb,
        mst      |-> F,
        root_idx |-> root_idx,
        visited  |-> bfs.visited,
        parent   |-> ForceAttach(bfs.visited, bfs.parent, root_idx)]

-----------------------------------------------------------------------------
(* The phylogeny run (phylogeny.main, lines 185-195) *)

NoPhylogeny == [nodes |-> <<>>, root_id |-> NoneId]

NoEnv == [model_loaded |-> FALSE, torch |-> FALSE, decodable |-> {}, readable |-> {},
          file_text |-> <<>>]

\* no document on disk, none loaded
NoFiles == <<>>

NoData == [path |-> <<>>, mode |-> "None", version |-> "None"]

NoInternals == [fallback |-> <<>>, mst |-> {}, root_idx |-> 0,
                visited |-> <<>>, parent |-> <<>>]

InitPhylogeny ==
    /\ pc = "loaded"
    /\ \E n \in 1..MaxN :
         \E ts \in [1..n -> Timestamps] :
           \E em \in [1..n -> Embeddings] :
             items = [i \in 1..n |->
                        [id |-> Names[i], timestamp |-> ts[i],
                         embedding |-> em[i], cluster |-> 0]]
    /\ similarity = <<>>
    /\ distances = <<>>
    /\ internals = NoInternals
    /\ phylogeny = NoPhylogeny
    /\ clusters = <<>>
    /\ species = <<>>
    /\ mode = "image"
    /\ env = NoEnv
    /\ coords = <<>>
    /\ labels = <<>>
    /\ label = <<>>
    /\ files = NoFiles
    /\ data = NoData

ComputeSimilarity ==
    /\ pc = "loaded"
    /\ similarity' = compute_similarity_matrix(ItemEmbeddings(items))
    /\ pc' = "similarity"
    /\ UNCHANGED <<items, distances, internals, phylogeny, clusters, species, clusterVars>>

BuildConstrainedGraph ==
    /\ pc = "similarity"
    /\ distances' = build_constrained_graph(similarity, ItemTimestamps(items))
    /\ pc' = "graph"
    /\ UNCHANGED <<items, similarity, internals, phylogeny, clusters, species, clusterVars>>

BuildPhylogenyTree ==
    /\ pc = "graph"
    /\ \E F \in MinimumSpanningTrees(FallbackDistances(distances)) :
         LET t == TreeInternals(distances, items, F) IN
         /\ internals' = t
         /\ phylogeny' = [nodes   |-> BuildNodes(items, t.parent),
                          root_id |-> items[t.root_idx].id]
    /\ pc' = "tree"
    /\ UNCHANGED <<items, similarity, distances, clusters, species, clusterVars>>

NextPhylogeny == ComputeSimilarity \/ BuildConstrainedGraph \/ BuildPhylogenyTree

SpecPhylogeny == InitPhylogeny /\ [][NextPhylogeny]_vars

-----------------------------------------------------------------------------
(* Properties of the phylogeny tree and the constrained graph *)

N == Len(items)

Nodes == phylogeny.nodes

\* the positions of the nodes a parent pointer names
Named(id) == {j \in DOMAIN Nodes : Nodes[j].id = id}

RootNodes == {i \in DOMAIN Nodes : Nodes[i].parent = NoneId}

\* following parent pointers from node i reaches a root within k steps
RECURSIVE ReachesRoot(_, _)
ReachesRoot(i, k) ==
    \/ Nodes[i].parent = NoneId
    \/ /\ k > 0
       /\ Named(Nodes[i].parent) # {}
       /\ \A j \in Named(Nodes[i].parent) : ReachesRoot(j, k - 1)

\* the number of parent steps from node i up to the root (ids are distinct)
RECURSIVE Depth(_)
Depth(i) ==
    IF Nodes[i].parent = NoneId THEN 0
    ELSE 1 + Depth(CHOOSE j \in DOMAIN Nodes : Nodes[j].id = Nodes[i].parent)

TimeDiff(i, j) == Abs(items[i].timestamp - items[j].timestamp)

\* the pairs joined by an edge of the constrained graph
ConstrainedEdges == {e \in (1..N) \X (1..N) : e[1] < e[2] /\ ~distances[e[1]][e[2]].inf}

\* C1: the nodes returned by build_phylogeny_tree form a rooted tree over all
\* N items: one node per item, exactly one node with parent None, every other
\* node's parent is the id of exactly one item, and following parent pointers
\* from any node reaches the root in at most N steps.
C1_RootedTree ==
    pc = "tree" =>
        /\ Len(Nodes) = N
        /\ \A i \in 1..N : Nodes[i].id = items[i].id
        /\ Cardinality(RootNodes) = 1
        /\ \A i \in 1..N : Nodes[i].parent # NoneId =>
               Cardinality({j \in 1..N : items[j].id = Nodes[i].parent}) = 1
        /\ \A i \in 1..N : ReachesRoot(i, N)

\* a tree of three items whose root is not the first item and that has a node
\* two steps below the root
C1_Witness ==
    /\ pc = "tree"
    /\ N = 3
    /\ internals.root_idx # 1
    /\ \E i \in 1..N : Depth(i) = 2

\* C2: root_id is the id of an item whose timestamp is <= every other item's,
\* that node is the one with parent None, and among items sharing the minimum
\* timestamp the first in input order is the root.
C2_RootIsEarliest ==
    pc = "tree" =>
        \E r \in 1..N :
            /\ phylogeny.root_id = items[r].id
            /\ \A j \in 1..N : items[r].timestamp <= items[j].timestamp
            /\ \A j \in 1..(r - 1) : items[j].timestamp > items[r].timestamp
            /\ RootNodes = {r}

\* two later items share the minimum timestamp; the first of them is the root
C2_Witness ==
    /\ pc = "tree"
    /\ N = 3
    /\ items[1].timestamp > items[2].timestamp
    /\ items[2].timestamp = items[3].timestamp
    /\ phylogeny.root_id = items[2].id

\* C3: for distinct i, j the distance entry is finite iff the timestamps are
\* strictly less than 30 days (2592000 s) apart or the similarity is strictly
\* above 0.85.
C3_EdgeIff ==
    pc \in {"graph", "tree"} =>
        \A i, j \in 1..N : i # j =>
            (~distances[i][j].inf <=>
                (TimeDiff(i, j) < 2592000 \/ similarity[i][j] > 8500))

\* one pair 40 days apart with similarity 0.9 has an edge, another exactly
\* 30 days apart with similarity exactly 0.85 has none
C3_Witness ==
    /\ pc = "graph"
    /\ \E i, j \in 1..N :
         /\ TimeDiff(i, j) = 40 * Day /\ similarity[i][j] = 9000
         /\ ~distances[i][j].inf
    /\ \E i, j \in 1..N :
         /\ TimeDiff(i, j) = 30 * Day /\ similarity[i][j] = 8500
         /\ distances[i][j].inf

\* C4: every edge has weight (1 - similarity) + (time_diff / 30 days) * 0.01,
\* stored identically at [i][j] and [j][i]; every pair with no edge and every
\* diagonal entry is infinite.  In ten-thousandths the weight is
\* (10000 - sim) + 100 * time_diff / 2592000, whose whole part is q and whose
\* remainder is r.
C4_EdgeWeight ==
    pc \in {"graph", "tree"} =>
        /\ \A i \in 1..N : distances[i][i] = INF
        /\ \A i, j \in 1..N : i # j =>
             /\ distances[i][j] = distances[j][i]
             /\ IF TimeDiff(i, j) < 2592000 \/ similarity[i][j] > 8500
                THEN /\ ~distances[i][j].inf
                     /\ distances[i][j].q =
                            (10000 - similarity[i][j]) + ((100 * TimeDiff(i, j)) \div 2592000)
                     /\ distances[i][j].r = (100 * TimeDiff(i, j)) % 2592000
                ELSE distances[i][j] = INF

\* the edge of the scenario: 40 days apart, similarity 0.9, weight 0.1 plus
\* the penalty (40/30) * 0.01
C4_Witness ==
    /\ pc = "graph"
    /\ \E i, j \in 1..N :
         /\ TimeDiff(i, j) = 40 * Day /\ similarity[i][j] = 9000
         /\ distances[i][j] = Fin(1000 + 133, 864000)
         /\ distances[j][i] = Fin(1000 + 133, 864000)

\* C5: when the constrained graph is disconnected, every missing edge gets
\* the finite distance 1000 before the spanning tree is computed, the spanning
\* tree joins all items, and every item has a parent chain to the single root.
C5_DisconnectedStillTree ==
    (pc = "tree" /\ NumComponents(ConstrainedEdges, N) > 1) =>
        /\ \A i, j \in 1..N : distances[i][j].inf =>
               internals.fallback[i][j] = [inf |-> FALSE, q |-> 1000 * 10000, r |-> 0]
        /\ NumComponents(internals.mst, N) = 1
        /\ Cardinality(RootNodes) = 1
        /\ \A i \in 1..N : ReachesRoot(i, N)

\* the scenario: two items 40 days apart with similarity 0.5 have no edge and
\* the second is still attached to the first through the fallback distance
C5_Witness ==
    /\ pc = "tree"
    /\ N = 2
    /\ TimeDiff(1, 2) = 40 * Day
    /\ similarity[1][2] = 5000
    /\ distances[1][2].inf
    /\ internals.mst = {<<1, 2>>}
    /\ internals.visited[2]
    /\ Nodes[2].parent = items[1].id

-----------------------------------------------------------------------------
(* generate_species *)

Range(s) == {s[i] : i \in DOMAIN s}

\* if item["cluster"] >= 0
InSomeCluster(item) == item.cluster >= 0

\* the keys of cluster_items, in the order the loop of lines 67-69 inserts them
RECURSIVE ClusterOrderFrom(_, _, _)
ClusterOrderFrom(its, k, acc) ==
    IF k > Len(its) THEN acc
    ELSE IF InSomeCluster(its[k]) /\ its[k].cluster \notin Range(acc)
         THEN ClusterOrderFrom(its, k + 1, Append(acc, its[k].cluster))
         ELSE ClusterOrderFrom(its, k + 1, acc)

ClusterOrder(its) == ClusterOrderFrom(its, 1, <<>>)

\* cluster_items[cluster_id]
ItemsInCluster(its, cluster_id) ==
    SelectSeq(its, LAMBDA item : InSomeCluster(item) /\ item.cluster = cluster_id)

\* cluster_map = {c["id"]: c for c in clusters}: a later record replaces an earlier one
ClusterMap(cls) ==
    [id \in {cls[k].id : k \in DOMAIN cls} |->
        cls[CHOOSE k \in DOMAIN cls :
                cls[k].id = id /\ \A l \in DOMAIN cls : cls[l].id = id => l <= k]]

SeqMax(s) == CHOOSE x \in Range(s) : \A j \in DOMAIN s : x >= s[j]

\* a wrong range start: the first member's timestamp
MinTimestamp_First(members) == members[1].timestamp

\* min_ts = min(timestamps)
MinTimestamp(members) == SeqMin([i \in DOMAIN members |-> members[i].timestamp])

\* max_ts = max(timestamps)
MaxTimestamp(members) == SeqMax([i \in DOMAIN members |-> members[i].timestamp])

\* f"species_{cluster_id}"
SpeciesId(cluster_id) == <<"species_", cluster_id>>

SpeciesRecord(cluster_id, members, cluster) ==
    [id            |-> SpeciesId(cluster_id),
     cluster_id    |-> cluster_id,
     name          |-> cluster.label,
     min_timestamp |-> MinTimestamp(members),
     max_timestamp |-> MaxTimestamp(members),
     centroid      |-> cluster.centroid,
     count         |-> Len(members),
     item_ids      |-> [i \in DOMAIN members |-> members[i].id]]

\* the loop of lines 74-104
RECURSIVE SpeciesFrom(_, _, _, _)
SpeciesFrom(order, k, its, cmap) ==
    IF k > Len(order) THEN <<>>
    ELSE IF order[k] \notin DOMAIN cmap
         THEN SpeciesFrom(order, k + 1, its, cmap)
         ELSE <<SpeciesRecord(order[k], ItemsInCluster(its, order[k]), cmap[order[k]])>>
              \o SpeciesFrom(order, k + 1, its, cmap)

\* list.sort is stable: x goes after every element whose key is not larger
RECURSIVE InsertByMinTimestamp(_, _)
InsertByMinTimestamp(sorted, x) ==
    IF sorted = <<>> THEN <<x>>
    ELSE IF x.min_timestamp < Head(sorted).min_timestamp
         THEN <<x>> \o sorted
         ELSE <<Head(sorted)>> \o InsertByMinTimestamp(Tail(sorted), x)

RECURSIVE SortFrom(_, _, _)
SortFrom(sp, k, acc) ==
    IF k > Len(sp) THEN acc ELSE SortFrom(sp, k + 1, InsertByMinTimestamp(acc, sp[k]))

\* a missing sort: the species stay in dictionary order
SortByMinTimestamp_Unsorted(sp) == sp

\* species.sort(key=lambda s: s["min_timestamp"])
SortByMinTimestamp(sp) == SortFrom(sp, 1, <<>>)

generate_species(its, cls) ==
    SortByMinTimestamp(SpeciesFrom(ClusterOrder(its), 1, its, ClusterMap(cls)))

-----------------------------------------------------------------------------
(* The species run (phylogeny.main, lines 179-181 and 199) *)

MaxClusterId == 1

ClusterIds == 0..MaxClusterId

NOISE == -1

\* labels and centroids as a clustering run leaves them in the clustered file
SampleLabels == << <<"P", "o", "r", "t", "r", "a", "i", "t">>,
                   <<"m", "i", "s", "c">>,
                   <<"I", "m", "a", "g", "e", "s">>,
                   <<"M", "a", "p">> >>

SampleCluster(id, its) ==
    [id       |-> id,
     label    |-> SampleLabels[id + 1],
     centroid |-> <<10 * id + 1, 10 * id + 2>>,
     size     |-> Cardinality({i \in DOMAIN its : its[i].cluster = id})]

\* the records of the ids in S, in ascending order of id
SampleClusters(S, its) ==
    LET order == SortedSeq(S) IN [k \in DOMAIN order |-> SampleCluster(order[k], its)]

InitSpecies ==
    /\ pc = "loaded"
    /\ \E n \in 0..MaxN :
         \E ts \in [1..n -> Timestamps] :
           \E cl \in [1..n -> ClusterIds \cup {NOISE}] :
             \E S \in SUBSET ClusterIds :
               /\ items = [i \in 1..n |->
                             [id |-> Names[i], timestamp |-> ts[i],
                              embedding |-> <<100, 0>>, cluster |-> cl[i]]]
               /\ clusters = SampleClusters(S, items)
    /\ species = <<>>
    /\ similarity = <<>>
    /\ distances = <<>>
    /\ internals = NoInternals
    /\ phylogeny = NoPhylogeny
    /\ mode = "image"
    /\ env = NoEnv
    /\ coords = <<>>
    /\ labels = <<>>
    /\ label = <<>>
    /\ files = NoFiles
    /\ data = NoData

GenerateSpecies ==
    /\ pc = "loaded"
    /\ species' = generate_species(items, clusters)
    /\ pc' = "species"
    /\ UNCHANGED <<items, clusters, phyloVars, clusterVars>>

NextSpecies == GenerateSpecies

SpecSpecies == InitSpecies /\ [][NextSpecies]_vars

-----------------------------------------------------------------------------
(* Properties of the species list *)

\* the cluster ids that get a species: they occur on a non-noise item and
\* have a record in the clusters list
SpeciesClusterIds ==
    {c \in {items[i].cluster : i \in DOMAIN items} :
        c >= 0 /\ \E k \in DOMAIN clusters : clusters[k].id = c}

MembersOf(c) == {i \in DOMAIN items : items[i].cluster = c}

\* C7: the species list is sorted non-decreasing by min_timestamp, and in
\* every species count equals the length of item_ids and min_timestamp <=
\* max_timestamp.
C7_SpeciesSorted ==
    pc = "species" =>
        /\ \A a, b \in DOMAIN species :
               a < b => species[a].min_timestamp <= species[b].min_timestamp
        /\ \A a \in DOMAIN species :
               /\ species[a].count = Len(species[a].item_ids)
               /\ species[a].min_timestamp <= species[a].max_timestamp

\* two species whose order by first occurrence is the reverse of their order
\* by earliest timestamp, one of them with several items over a time range
C7_Witness ==
    /\ pc = "species"
    /\ Len(species) = 2
    /\ ClusterOrder(items) = <<species[2].cluster_id, species[1].cluster_id>>
    /\ species[1].min_timestamp < species[2].min_timestamp
    /\ \E a \in DOMAIN species :
         species[a].count = 2 /\ species[a].min_timestamp < species[a].max_timestamp

\* C8: exactly one species per cluster id that occurs among the non-noise
\* items and is present in the clusters list; its id is species_<cluster_id>,
\* name and centroid are those of the cluster record, min/max timestamps are
\* the minimum and maximum over its member items, item_ids are the ids of the
\* items with that cluster id in input order, and no item with a negative
\* cluster id appears in any species.
C8_OneSpeciesPerCluster ==
    pc = "species" =>
        /\ {species[a].cluster_id : a \in DOMAIN species} = SpeciesClusterIds
        /\ Len(species) = Cardinality(SpeciesClusterIds)
        /\ \A a \in DOMAIN species :
             LET s == species[a]
                 c == s.cluster_id
             IN /\ s.id = <<"species_", c>>
                /\ \E k \in DOMAIN clusters :
                     /\ clusters[k].id = c
                     /\ s.name = clusters[k].label
                     /\ s.centroid = clusters[k].centroid
                /\ \A i \in MembersOf(c) : s.min_timestamp <= items[i].timestamp
                /\ \E i \in MembersOf(c) : s.min_timestamp = items[i].timestamp
                /\ \A i \in MembersOf(c) : s.max_timestamp >= items[i].timestamp
                /\ \E i \in MembersOf(c) : s.max_timestamp = items[i].timestamp
                /\ Len(s.item_ids) = Cardinality(MembersOf(c))
                /\ \A x, y \in DOMAIN s.item_ids : x < y =>
                     \E i, j \in MembersOf(c) :
                         i < j /\ items[i].id = s.item_ids[x] /\ items[j].id = s.item_ids[y]
                /\ \A i \in DOMAIN items :
                     items[i].cluster < 0 => items[i].id \notin Range(s.item_ids)

\* a noise item beside a species of two items whose first member is not its
\* earliest
C8_Witness ==
    /\ pc = "species"
    /\ Len(items) = 3
    /\ \E i \in DOMAIN items : items[i].cluster < 0
    /\ Len(species) = 1
    /\ species[1].count = 2
    /\ \E i, j \in MembersOf(species[1].cluster_id) :
         i < j /\ items[j].timestamp < items[i].timestamp
                /\ species[1].min_timestamp = items[j].timestamp

-----------------------------------------------------------------------------
(* Strings are sequences of one-character strings.  The letters are ASCII. *)

LowerLetters == <<"a", "b", "c", "d", "e", "f", "g", "h", "i", "j", "k", "l", "m", "n", "o", "p", "q", "r", "s", "t", "u", "v", "w", "x", "y", "z">>

UpperLetters == <<"A", "B", "C", "D", "E", "F", "G", "H", "I", "J", "K", "L", "M", "N", "O", "P", "Q", "R", "S", "T", "U", "V", "W", "X", "Y", "Z">>

Whitespace == {" ", "\t", "\n"}

PositionIn(s, ch) == CHOOSE k \in DOMAIN s : s[k] = ch

\* 'a' <= ch <= 'z'
IsLowerAZ(ch) == ch \in Range(LowerLetters)

IsUpperAZ(ch) == ch \in Range(UpperLetters)

IsAlphaChar(ch) == IsLowerAZ(ch) \/ IsUpperAZ(ch)

ToLower(ch) == IF IsUpperAZ(ch) THEN LowerLetters[PositionIn(UpperLetters, ch)] ELSE ch

ToUpper(ch) == IF IsLowerAZ(ch) THEN UpperLetters[PositionIn(LowerLetters, ch)] ELSE ch

\* str.lower
Lower(s) == [k \in DOMAIN s |-> ToLower(s[k])]

\* str.title: a letter is upper-cased after a non-letter and lower-cased after a letter
Title(s) ==
    [k \in DOMAIN s |->
        IF k > 1 /\ IsAlphaChar(s[k - 1]) THEN ToLower(s[k]) ELSE ToUpper(s[k])]

\* str.isalpha
IsAlpha(w) == w # <<>> /\ \A k \in DOMAIN w : IsAlphaChar(w[k])

\* str.split(): the maximal runs of non-whitespace characters
RECURSIVE SplitFrom(_, _, _)
SplitFrom(s, k, cur) ==
    IF k > Len(s) THEN (IF cur = <<>> THEN <<>> ELSE <<cur>>)
    ELSE IF s[k] \in Whitespace
         THEN (IF cur = <<>> THEN <<>> ELSE <<cur>>) \o SplitFrom(s, k + 1, <<>>)
         ELSE SplitFrom(s, k + 1, Append(cur, s[k]))

Split(s) == SplitFrom(s, 1, <<>>)

RECURSIVE LStrip(_, _)
LStrip(w, chars) ==
    IF w # <<>> /\ Head(w) \in chars THEN LStrip(Tail(w), chars) ELSE w

RECURSIVE RStrip(_, _)
RStrip(w, chars) ==
    IF w # <<>> /\ w[Len(w)] \in chars THEN RStrip(SubSeq(w, 1, Len(w) - 1), chars) ELSE w

\* str.strip(chars)
Strip(w, chars) == RStrip(LStrip(w, chars), chars)

\* s[:n]
Take(s, n) == SubSeq(s, 1, Min2(n, Len(s)))

-----------------------------------------------------------------------------
(* get_text_cluster_label *)

STOPWORDS ==
    {<<"t", "h", "e">>, <<"a">>, <<"a", "n">>, <<"a", "n", "d">>, <<"o", "r">>, <<"b", "u", "t">>,
     <<"i", "n">>, <<"o", "n">>, <<"a", "t">>, <<"t", "o">>, <<"f", "o", "r">>, <<"o", "f">>,
     <<"w", "i", "t", "h">>, <<"b", "y">>, <<"f", "r", "o", "m">>, <<"i", "s">>, <<"a", "r", "e">>,
     <<"w", "a", "s">>, <<"w", "e", "r", "e">>, <<"b", "e">>, <<"b", "e", "e", "n">>,
     <<"b", "e", "i", "n", "g">>, <<"h", "a", "v", "e">>, <<"h", "a", "s">>, <<"h", "a", "d">>,
     <<"d", "o">>, <<"d", "o", "e", "s">>, <<"d", "i", "d">>, <<"w", "i", "l", "l">>,
     <<"w", "o", "u", "l", "d">>, <<"c", "o", "u", "l", "d">>, <<"s", "h", "o", "u", "l", "d">>,
     <<"m", "a", "y">>, <<"m", "i", "g", "h", "t">>, <<"m", "u", "s", "t">>,
     <<"s", "h", "a", "l", "l">>, <<"c", "a", "n">>, <<"t", "h", "i", "s">>, <<"t", "h", "a", "t">>,
     <<"t", "h", "e", "s", "e">>, <<"t", "h", "o", "s", "e">>, <<"i">>, <<"y", "o", "u">>,
     <<"h", "e">>, <<"s", "h", "e">>, <<"i", "t">>, <<"w", "e">>, <<"t", "h", "e", "y">>,
     <<"w", "h", "a", "t">>, <<"w", "h", "i", "c", "h">>, <<"w", "h", "o">>, <<"w", "h", "e", "n">>,
     <<"w", "h", "e", "r", "e">>, <<"w", "h", "y">>, <<"h", "o", "w">>, <<"a", "l", "l">>,
     <<"e", "a", "c", "h">>, <<"e", "v", "e", "r", "y">>, <<"b", "o", "t", "h">>, <<"f", "e", "w">>,
     <<"m", "o", "r", "e">>, <<"m", "o", "s", "t">>, <<"o", "t", "h", "e", "r">>,
     <<"s", "o", "m", "e">>, <<"s", "u", "c", "h">>, <<"n", "o">>, <<"n", "o", "t">>,
     <<"o", "n", "l", "y">>, <<"s", "a", "m", "e">>, <<"s", "o">>, <<"t", "h", "a", "n">>,
     <<"t", "o", "o">>, <<"v", "e", "r", "y">>, <<"j", "u", "s", "t">>, <<"a", "l", "s", "o">>,
     <<"n", "o", "w">>, <<"h", "e", "r", "e">>, <<"t", "h", "e", "r", "e">>, <<"t", "h", "e", "n">>,
     <<"i", "f">>, <<"a", "s">>, <<"b", "e", "c", "a", "u", "s", "e">>, <<"u", "n", "t", "i", "l">>,
     <<"w", "h", "i", "l", "e">>, <<"a", "b", "o", "u", "t">>, <<"i", "n", "t", "o">>,
     <<"t", "h", "r", "o", "u", "g", "h">>, <<"d", "u", "r", "i", "n", "g">>,
     <<"b", "e", "f", "o", "r", "e">>, <<"a", "f", "t", "e", "r">>, <<"a", "b", "o", "v", "e">>,
     <<"b", "e", "l", "o", "w">>}

\* the argument of w.strip('.,!?()[]{}":;-_#*')
STRIP_CHARS == {".", ",", "!", "?", "(", ")", "[", "]", "{", "}", "\"", ":", ";", "-", "_", "#", "*"}

\* the 3 of len(w) > 3
MIN_WORD_LENGTH == 3

\* the 10 of items[:10]
TEXT_SAMPLE == 10

\* the 500 of read_text(...)[:500]
READ_CHARS == 500

TEXT_PLACEHOLDER == <<"m", "i", "s", "c">>

\* a wrong filter: words with non-letters are kept
KeepsWord_AnyCharacters(w) == Len(w) > MIN_WORD_LENGTH /\ w \notin STOPWORDS

\* len(w) > 3 and w not in stopwords and w.isalpha()
KeepsWord(w) == Len(w) > MIN_WORD_LENGTH /\ w \notin STOPWORDS /\ IsAlpha(w)

\* lines 165-167: the words of one text that are counted
SurvivingWords(text) ==
    LET words    == Split(Lower(text))
        stripped == [k \in DOMAIN words |-> Strip(words[k], STRIP_CHARS)]
    IN SelectSeq(stripped, KeepsWord)

\* A Counter: the sequence of [word, n] in order of first insertion
RECURSIVE CounterUpdate(_, _)
CounterUpdate(counter, words) ==
    IF words = <<>> THEN counter
    ELSE LET w == Head(words) IN
         IF \E k \in DOMAIN counter : counter[k].word = w
         THEN CounterUpdate(
                  [k \in DOMAIN counter |->
                      IF counter[k].word = w
                      THEN [word |-> w, n |-> counter[k].n + 1]
                      ELSE counter[k]],
                  Tail(words))
         ELSE CounterUpdate(Append(counter, [word |-> w, n |-> 1]), Tail(words))

\* a wrong tie-break: the last inserted of the most frequent words
MostCommon_Last(counter) ==
    counter[CHOOSE k \in DOMAIN counter :
                /\ \A l \in DOMAIN counter : counter[l].n <= counter[k].n
                /\ \A l \in DOMAIN counter : l > k => counter[l].n < counter[k].n].word

\* most_common(...)[0][0]: the first inserted of the most frequent words
MostCommon(counter) ==
    counter[CHOOSE k \in DOMAIN counter :
                /\ \A l \in DOMAIN counter : counter[l].n <= counter[k].n
                /\ \A l \in DOMAIN counter : l < k => counter[l].n < counter[k].n].word

\* lines 157-162: the text of one item, or <<"skip">> when the item is skipped.
\* readable is the set of content paths read_text succeeds on; file_text is
\* what it returns.
NO_TEXT == <<"skip">>

ItemText(item, e) ==
    IF item.preview # <<>> THEN item.preview
    ELSE IF item.content \in e.readable
         THEN Take(e.file_text[item.content], READ_CHARS)
         ELSE NO_TEXT

\* a wrong sample: every item of the cluster is read
TextSample_All(its) == its

\* items[:10]
TextSample(its) == Take(its, TEXT_SAMPLE)

\* a wrong handler: the first unreadable item ends the sampling
RECURSIVE CountWords_StopOnFailure(_, _, _)
CountWords_StopOnFailure(sample, e, counter) ==
    IF sample = <<>> THEN counter
    ELSE LET text == ItemText(Head(sample), e) IN
         IF text = NO_TEXT
         THEN counter
         ELSE CountWords_StopOnFailure(Tail(sample), e,
                                       CounterUpdate(counter, SurvivingWords(text)))

RECURSIVE CountWords(_, _, _)
CountWords(sample, e, counter) ==
    IF sample = <<>> THEN counter
    ELSE LET text == ItemText(Head(sample), e) IN
         IF text = NO_TEXT
         THEN CountWords(Tail(sample), e, counter)
         ELSE CountWords(Tail(sample), e, CounterUpdate(counter, SurvivingWords(text)))

get_text_cluster_label(its, e) ==
    LET word_counts == CountWords(TextSample(its), e, <<>>)
    IN IF word_counts # <<>> THEN Title(MostCommon(word_counts)) ELSE TEXT_PLACEHOLDER

-----------------------------------------------------------------------------
(* The text labeller on its own: a cluster of text items *)

MaxRunLen == 11

\* "the quick brown fox jumps over the lazy dog"
PREVIEW_FOX ==
    <<"t", "h", "e", " ", "q", "u", "i", "c", "k", " ", "b", "r", "o", "w", "n", " ", "f", "o",
      "x", " ", "j", "u", "m", "p", "s", " ", "o", "v", "e", "r", " ", "t", "h", "e", " ", "l",
      "a", "z", "y", " ", "d", "o", "g">>

\* "Lazy dogs: (lazy) about cats/dogs, a1b2c LAZY!"
PREVIEW_LAZY ==
    <<"L", "a", "z", "y", " ", "d", "o", "g", "s", ":", " ", "(", "l", "a", "z", "y", ")", " ",
      "a", "b", "o", "u", "t", " ", "c", "a", "t", "s", "/", "d", "o", "g", "s", ",", " ", "a",
      "1", "b", "2", "c", " ", "L", "A", "Z", "Y", "!">>

\* "It is on the fox."
PREVIEW_SHORT ==
    <<"I", "t", " ", "i", "s", " ", "o", "n", " ", "t", "h", "e", " ", "f", "o", "x", ".">>

\* an item without a cached preview
PREVIEW_EMPTY == <<>>

Previews == {PREVIEW_FOX, PREVIEW_LAZY, PREVIEW_SHORT, PREVIEW_EMPTY}

TEXT_PATH == "notes/dogs.md"

\* "#dogs -dogs- {dogs} over"
FILE_DOGS ==
    <<"#", "d", "o", "g", "s", " ", "-", "d", "o", "g", "s", "-", " ", "{", "d", "o", "g", "s",
      "}", " ", "o", "v", "e", "r">>

TextItem(i, preview) == [id |-> i, content |-> TEXT_PATH, preview |-> preview]

\* the items of a cluster: a run of equal items followed by another run
TwoRuns(p1, n1, p2, n2) ==
    [i \in 1..(n1 + n2) |-> TextItem(i, IF i <= n1 THEN p1 ELSE p2)]

TextEnv(readable) ==
    [model_loaded |-> FALSE, torch |-> FALSE, decodable |-> {}, readable |-> readable,
     file_text |-> [p \in {TEXT_PATH} |-> FILE_DOGS]]

InitTextLabel ==
    /\ pc = "cluster"
    /\ \E p1 \in Previews, p2 \in Previews :
         \E n1 \in 0..MaxRunLen, n2 \in 0..MaxRunLen :
           items = TwoRuns(p1, n1, p2, n2)
    /\ \E readable \in SUBSET {TEXT_PATH} : env = TextEnv(readable)
    /\ mode = "text"
    /\ label = <<>>
    /\ clusters = <<>>
    /\ species = <<>>
    /\ similarity = <<>>
    /\ distances = <<>>
    /\ internals = NoInternals
    /\ phylogeny = NoPhylogeny
    /\ coords = <<>>
    /\ labels = <<>>
    /\ files = NoFiles
    /\ data = NoData

GetTextClusterLabel ==
    /\ pc = "cluster"
    /\ label' = get_text_cluster_label(items, env)
    /\ pc' = "labelled"
    /\ UNCHANGED <<items, clusters, species, phyloVars, mode, env, coords, labels, diskVars>>

NextTextLabel == GetTextClusterLabel

SpecTextLabel == InitTextLabel /\ [][NextTextLabel]_vars

-----------------------------------------------------------------------------
(* Properties of the text label *)

\* the items the claim lets the label depend on: the first 10
FirstTen == SubSeq(items, 1, Min2(10, Len(items)))

\* the words of the first ten items, lower-cased and punctuation-stripped, in
\* the order they are met; an item with no preview contributes its file's
\* words when the file can be read and nothing otherwise
RECURSIVE WordsMet(_)
WordsMet(sample) ==
    IF sample = <<>> THEN <<>>
    ELSE LET item == Head(sample)
             text == IF item.preview # <<>> THEN item.preview
                     ELSE IF item.content \in env.readable
                          THEN env.file_text[item.content]
                          ELSE <<>>
             words == Split(Lower(text))
         IN [k \in DOMAIN words |-> Strip(words[k], STRIP_CHARS)] \o WordsMet(Tail(sample))

Survives(w) ==
    /\ Len(w) > 3
    /\ w # <<>> /\ \A k \in DOMAIN w : w[k] \in Range(LowerLetters) \cup Range(UpperLetters)
    /\ w \notin STOPWORDS

TimesMet(met, w) == Cardinality({k \in DOMAIN met : met[k] = w})

FirstMet(met, w) == CHOOSE k \in DOMAIN met : met[k] = w /\ \A l \in 1..(k - 1) : met[l] # w

\* C10: the label is the title-cased form of a word with the highest count
\* among the surviving words of the first 10 items, the earliest met winning
\* ties; it is never a stopword nor a word of 3 characters or fewer; with no
\* surviving word it is the placeholder; and a cluster whose previews are all
\* "the quick brown fox jumps over the lazy dog" gets one of its content words.
C10_TextLabel ==
    pc = "labelled" =>
        LET met  == WordsMet(FirstTen)
            kept == {w \in Range(met) : Survives(w)}
        IN /\ kept = {} => label = <<"m", "i", "s", "c">>
           /\ kept # {} =>
                \E w \in kept :
                    /\ label = Title(w)
                    /\ \A v \in kept :
                         \/ TimesMet(met, v) < TimesMet(met, w)
                         \/ /\ TimesMet(met, v) = TimesMet(met, w)
                            /\ FirstMet(met, w) <= FirstMet(met, v)
           /\ Lower(label) \notin STOPWORDS
           /\ Len(label) > 3
           /\ (items # <<>> /\ \A i \in DOMAIN items : items[i].preview = PREVIEW_FOX) =>
                label \in {<<"Q", "u", "i", "c", "k">>, <<"B", "r", "o", "w", "n">>,
                           <<"J", "u", "m", "p", "s">>, <<"L", "a", "z", "y">>}

\* ten fox items tie quick with lazy and quick, met first, wins; the eleventh
\* item would make lazy the most frequent word if it were read
C10_Witness ==
    /\ pc = "labelled"
    /\ Len(items) = 11
    /\ \A i \in 1..10 : items[i].preview = PREVIEW_FOX
    /\ items[11].preview = PREVIEW_LAZY
    /\ label = <<"Q", "u", "i", "c", "k">>

-----------------------------------------------------------------------------
(* _fallback_image_label *)

FALLBACK_STOP ==
    { <<"i", "m", "a", "g", "e">>,
      <<"i", "m", "a", "g", "e", "s">>,
      <<"i", "m", "g">>,
      <<"j", "p", "e", "g">>,
      <<"j", "p", "g">>,
      <<"p", "n", "g">>,
      <<"w", "e", "b", "p">>,
      <<"g", "i", "f">>,
      <<"f", "i", "n", "a", "l">>,
      <<"c", "o", "p", "y">>,
      <<"s", "c", "r", "e", "e", "n">>,
      <<"s", "c", "r", "e", "e", "n", "s", "h", "o", "t">>,
      <<"p", "h", "o", "t", "o">>,
      <<"p", "i", "c", "s">>,
      <<"p", "i", "c", "t", "u", "r", "e">>,
      <<"d", "o", "w", "n", "l", "o", "a", "d">>,
      <<"d", "o", "w", "n", "l", "o", "a", "d", "s">>,
      <<"e", "d", "i", "t", "e", "d">>,
      <<"e", "d", "i", "t">>,
      <<"e", "x", "p", "o", "r", "t">>,
      <<"o", "u", "t", "p", "u", "t">> }

\* the 40 of (image_paths or [])[:40]
FALLBACK_PATHS == 40

\* the 4 of len(t) < 4
MIN_TOKEN_LENGTH == 4

IMAGE_PLACEHOLDER == <<"I", "m", "a", "g", "e", "s">>

\* lines 66-76: the maximal runs of the letters a-z
RECURSIVE TokensFrom(_, _, _)
TokensFrom(s, k, cur) ==
    IF k > Len(s) THEN (IF cur = <<>> THEN <<>> ELSE <<cur>>)
    ELSE IF IsLowerAZ(s[k])
         THEN TokensFrom(s, k + 1, Append(cur, s[k]))
         ELSE (IF cur = <<>> THEN <<>> ELSE <<cur>>) \o TokensFrom(s, k + 1, <<>>)

Tokens(s) == TokensFrom(s, 1, <<>>)

\* lines 77-82: the tokens that are counted
KeepsToken(t) == ~(Len(t) < MIN_TOKEN_LENGTH) /\ t \notin FALLBACK_STOP

\* lines 63-82: the counted tokens of each path, in the order of the loop
KeptTokens(paths) ==
    [i \in DOMAIN paths |-> SelectSeq(Tokens(Lower(paths[i])), KeepsToken)]

\* the places <<path, token>> the loop of lines 63-82 visits
Visits(kept) == UNION {{<<i, j>> : j \in DOMAIN kept[i]} : i \in DOMAIN kept}

\* the loop visits p before q
Earlier(p, q) == p[1] < q[1] \/ (p[1] = q[1] /\ p[2] < q[2])

\* the Counter the loop of lines 63-82 leaves: each token once, in order of
\* its first visit, with the number of visits that saw it (line 82)
CountTokens(paths) ==
    LET kept   == KeptTokens(paths)
        visits == Visits(kept)
        firsts == {p \in visits :
                      \A q \in visits : Earlier(q, p) => kept[q[1]][q[2]] # kept[p[1]][p[2]]}
    IN [r \in 1..Cardinality(firsts) |->
           LET p == CHOOSE f \in firsts : Cardinality({q \in firsts : Earlier(q, f)}) = r - 1
               t == kept[p[1]][p[2]]
           IN [word |-> t, n |-> Cardinality({q \in visits : kept[q[1]][q[2]] = t})]]

\* a missing path list (None): a list of one entry that is not a path
NO_PATHS == << <<"None">> >>

\* image_paths or []
OrEmpty(image_paths) == IF image_paths = NO_PATHS THEN <<>> ELSE image_paths

\* a wrong sample: every path of the cluster is counted
fallback_image_label_AllPaths(image_paths) ==
    LET counts == CountTokens(OrEmpty(image_paths))
    IN IF counts = <<>> THEN IMAGE_PLACEHOLDER ELSE Title(MostCommon(counts))

fallback_image_label(image_paths) ==
    LET counts == CountTokens(Take(OrEmpty(image_paths), FALLBACK_PATHS))
    IN IF counts = <<>> THEN IMAGE_PLACEHOLDER ELSE Title(MostCommon(counts))

-----------------------------------------------------------------------------
(* get_image_semantic_label *)

IMAGE_LABELS ==
    << <<"l", "a", "n", "d", "s", "c", "a", "p", "e", " ", "p", "a", "i", "n", "t", "i", "n", "g">>,
       <<"p", "o", "r", "t", "r", "a", "i", "t">>,
       <<"a", "r", "c", "h", "i", "t", "e", "c", "t", "u", "r", "e">>,
       <<"v", "e", "h", "i", "c", "l", "e">>,
       <<"c", "a", "r">>,
       <<"m", "i", "l", "i", "t", "a", "r", "y">>,
       <<"n", "a", "t", "u", "r", "e", " ", "p", "h", "o", "t", "o", "g", "r", "a", "p", "h", "y">>,
       <<"a", "b", "s", "t", "r", "a", "c", "t", " ", "a", "r", "t">>,
       <<"d", "i", "g", "i", "t", "a", "l", " ", "a", "r", "t">>,
       <<"v", "i", "n", "t", "a", "g", "e", " ", "p", "h", "o", "t", "o", "g", "r", "a", "p", "h">>,
       <<"m", "o", "v", "i", "e", " ", "s", "t", "i", "l", "l">>,
       <<"p", "r", "o", "d", "u", "c", "t", " ", "p", "h", "o", "t", "o">>,
       <<"f", "a", "s", "h", "i", "o", "n">>,
       <<"i", "n", "t", "e", "r", "i", "o", "r", " ", "d", "e", "s", "i", "g", "n">>,
       <<"f", "u", "r", "n", "i", "t", "u", "r", "e">>,
       <<"t", "e", "c", "h", "n", "o", "l", "o", "g", "y">>,
       <<"d", "i", "a", "g", "r", "a", "m">>,
       <<"m", "a", "p">>,
       <<"m", "e", "m", "e">>,
       <<"s", "c", "r", "e", "e", "n", "s", "h", "o", "t">>,
       <<"U", "I", " ", "d", "e", "s", "i", "g", "n">>,
       <<"i", "l", "l", "u", "s", "t", "r", "a", "t", "i", "o", "n">>,
       <<"s", "c", "u", "l", "p", "t", "u", "r", "e">>,
       <<"h", "i", "s", "t", "o", "r", "i", "c", "a", "l", " ", "p", "h", "o", "t", "o">>,
       <<"a", "e", "r", "i", "a", "l", " ", "v", "i", "e", "w">>,
       <<"f", "o", "o", "d">>,
       <<"a", "n", "i", "m", "a", "l">>,
       <<"p", "e", "r", "s", "o", "n">>,
       <<"b", "u", "i", "l", "d", "i", "n", "g">>,
       <<"a", "r", "t", "w", "o", "r", "k">>,
       <<"d", "o", "c", "u", "m", "e", "n", "t">>,
       <<"b", "o", "o", "k", " ", "c", "o", "v", "e", "r">>,
       <<"p", "o", "s", "t", "e", "r">>,
       <<"r", "o", "m", "a", "n", "t", "i", "c", " ", "p", "a", "i", "n", "t", "i", "n", "g">>,
       <<"i", "m", "p", "r", "e", "s", "s", "i", "o", "n", "i", "s", "t", " ", "a", "r", "t">>,
       <<"c", "l", "a", "s", "s", "i", "c", "a", "l", " ", "a", "r", "t">> >>

\* the 5 of image_paths[:5]
IMAGE_SAMPLE == 5

Returned(l) == [raised |-> FALSE, label |-> l]

\* an exception leaves the function
Raised == [raised |-> TRUE, label |-> <<>>]

\* lines 92-99: the sampled images that open
OpenedImages(image_paths, e) ==
    SelectSeq(Take(image_paths, IMAGE_SAMPLE), LAMBDA path : path \in e.decodable)

\* labels[0]: the title-cased candidate with the highest mean score; which
\* candidate that is, is the classification model's answer, top
ZeroShotLabel(top) == Title(IMAGE_LABELS[top])

\* e.model_loaded: main's try block (lines 227-235) completed, so model and
\* processor are objects; otherwise both are None and the call of line 109
\* raises TypeError
get_image_semantic_label(image_paths, e, top) ==
    IF OpenedImages(image_paths, e) = <<>> THEN Returned(fallback_image_label(image_paths))
    ELSE IF ~e.torch THEN Returned(fallback_image_label(image_paths))
    ELSE IF ~e.model_loaded THEN Raised
    ELSE Returned(ZeroShotLabel(top))

-----------------------------------------------------------------------------
(* run_clustering *)

\* a wrong label set: the noise label is kept
UniqueLabels_WithNoise(lab) == Range(lab)

\* unique_labels = set(labels) - {-1}
UniqueLabels(lab) == Range(lab) \ {NOISE}

\* mask = labels == cluster_id
Mask(lab, cluster_id) == {i \in DOMAIN lab : lab[i] = cluster_id}

\* cluster_items = [items[i] for i in range(len(items)) if mask[i]]
ClusterItems(its, lab, cluster_id) ==
    LET order == SortedSeq(Mask(lab, cluster_id)) IN [k \in DOMAIN order |-> its[order[k]]]

RECURSIVE SumOver(_, _, _)
SumOver(S, xy, axis) ==
    IF S = {} THEN 0
    ELSE LET i == CHOOSE j \in S : TRUE IN xy[i][axis] + SumOver(S \ {i}, xy, axis)

\* coords[mask].mean(axis=0), kept exactly as the two sums over the count
Centroid(xy, mask) ==
    [sum |-> <<SumOver(mask, xy, 1), SumOver(mask, xy, 2)>>, of |-> Cardinality(mask)]

\* lines 198-202
ClusterLabel(m, cluster_items, e, top) ==
    IF m = "image"
    THEN get_image_semantic_label([k \in DOMAIN cluster_items |-> cluster_items[k].content], e, top)
    ELSE Returned(get_text_cluster_label(cluster_items, e))

\* the loop of lines 192-210 over the remaining ids; an exception ends it
RECURSIVE ClusterRecords(_, _, _, _, _, _, _)
ClusterRecords(ids, xy, its, m, lab, e, top) ==
    IF ids = <<>> THEN [raised |-> FALSE, clusters |-> <<>>]
    ELSE LET cluster_id == Head(ids)
             got        == ClusterLabel(m, ClusterItems(its, lab, cluster_id), e, top)
             rest       == ClusterRecords(Tail(ids), xy, its, m, lab, e, top)
         IN IF got.raised \/ rest.raised THEN [raised |-> TRUE, clusters |-> <<>>]
            ELSE [raised   |-> FALSE,
                  clusters |-> <<[id       |-> cluster_id,
                                  label    |-> got.label,
                                  centroid |-> Centroid(xy, Mask(lab, cluster_id)),
                                  size     |-> Cardinality(Mask(lab, cluster_id))]>>
                               \o rest.clusters]

run_clustering(xy, its, m, lab, e, top) ==
    ClusterRecords(SortedSeq(UniqueLabels(lab)), xy, its, m, lab, e, top)

-----------------------------------------------------------------------------
(* The clustering run (cluster.main, lines 218-245).  The projection and the  *)
(* density clustering are library calls: the projection is one fixed layout,  *)
(* the label vector is any vector over the noise label and the cluster ids    *)
(* (the library's minimum cluster size is not imposed), and the               *)
(* classification model's answer is any candidate, drawn once per run.        *)

\* "/pics/Cats/cat_01.jpg"
PATH_CATS ==
    <<"/", "p", "i", "c", "s", "/", "C", "a", "t", "s", "/", "c", "a", "t", "_", "0", "1", ".",
      "j", "p", "g">>

\* "/a/1.png"
PATH_BARE ==
    <<"/", "a", "/", "1", ".", "p", "n", "g">>

ImagePaths == {PATH_CATS, PATH_BARE}

MaxClusterN == 2

\* "cats/dogs and/or cats/dogs"
PREVIEW_SLASH ==
    <<"c", "a", "t", "s", "/", "d", "o", "g", "s", " ", "a", "n", "d", "/", "o", "r", " ", "c",
      "a", "t", "s", "/", "d", "o", "g", "s">>

ClusterPreviews == {PREVIEW_FOX, PREVIEW_SLASH, PREVIEW_EMPTY}

ImageItem(i, path) == [id |-> Names[i], content |-> path, preview |-> <<>>]

ImageEnv(loaded, torch, decodable) ==
    [model_loaded |-> loaded, torch |-> torch, decodable |-> decodable,
     readable |-> {}, file_text |-> <<>>]

InitClustering ==
    /\ pc = "loaded"
    /\ \E n \in 1..MaxClusterN :
         \/ /\ mode = "image"
            /\ \E path \in [1..n -> ImagePaths] :
                 items = [i \in 1..n |-> ImageItem(i, path[i])]
            /\ \E loaded \in BOOLEAN, torch \in BOOLEAN, decodable \in SUBSET ImagePaths :
                 /\ loaded => torch
                 /\ env = ImageEnv(loaded, torch, decodable)
         \/ /\ mode = "text"
            /\ \E preview \in [1..n -> ClusterPreviews] :
                 items = [i \in 1..n |-> TextItem(Names[i], preview[i])]
            /\ \E readable \in SUBSET {TEXT_PATH} : env = TextEnv(readable)
    /\ coords = <<>>
    /\ labels = <<>>
    /\ clusters = <<>>
    /\ label = <<>>
    /\ species = <<>>
    /\ similarity = <<>>
    /\ distances = <<>>
    /\ internals = NoInternals
    /\ phylogeny = NoPhylogeny
    /\ files = NoFiles
    /\ data = NoData

\* coords = run_umap(embeddings)
RunUmap ==
    /\ pc = "loaded"
    /\ coords' = [i \in DOMAIN items |-> <<i, 2 * i>>]
    /\ pc' = "projected"
    /\ UNCHANGED <<items, clusters, species, phyloVars, mode, env, labels, label, diskVars>>

\* lines 243-245: item["umap"] = coords[i]; item["cluster"] = int(labels[i])
Attach(its, xy, lab) ==
    [i \in DOMAIN its |->
        [id |-> its[i].id, content |-> its[i].content, preview |-> its[i].preview,
         umap |-> xy[i], cluster |-> lab[i]]]

\* the candidates the classification model can answer with; it answers only
\* when it is loaded
Answers(m, e) == IF m = "image" /\ e.model_loaded THEN DOMAIN IMAGE_LABELS ELSE {1}

\* labels, clusters = run_clustering(...) and the loop of lines 243-245
RunClustering ==
    /\ pc = "projected"
    /\ \E lab \in [DOMAIN items -> ClusterIds \cup {NOISE}] :
         \E top \in Answers(mode, env) :
           LET got == run_clustering(coords, items, mode, lab, env, top) IN
           IF got.raised
           THEN /\ pc' = "raised"
                /\ UNCHANGED <<items, labels, clusters>>
           ELSE /\ pc' = "clustered"
                /\ labels' = lab
                /\ clusters' = got.clusters
                /\ items' = Attach(items, coords, lab)
    /\ UNCHANGED <<species, phyloVars, mode, env, coords, label, diskVars>>

NextClustering == RunUmap \/ RunClustering

SpecClustering == InitClustering /\ [][NextClustering]_vars

-----------------------------------------------------------------------------
(* Properties of the cluster records *)

NoiseItems == {i \in DOMAIN items : items[i].cluster = -1}

RECURSIVE SizeSum(_)
SizeSum(cls) == IF cls = <<>> THEN 0 ELSE Head(cls).size + SizeSum(Tail(cls))

\* C6: the cluster records partition the non-noise items: record ids are
\* unique and ascending, every item whose label is not -1 has the id of
\* exactly one record, no record has id -1, each size is the number of items
\* with that label, and the sizes sum to the number of items minus the noise.
C6_ClustersPartition ==
    pc = "clustered" =>
        /\ \A i \in DOMAIN items : items[i].cluster = labels[i]
        /\ \A a, b \in DOMAIN clusters : a < b => clusters[a].id < clusters[b].id
        /\ \A i \in DOMAIN items : items[i].cluster # -1 =>
               Cardinality({k \in DOMAIN clusters : clusters[k].id = items[i].cluster}) = 1
        /\ \A k \in DOMAIN clusters :
               /\ clusters[k].id # -1
               /\ clusters[k].size =
                      Cardinality({i \in DOMAIN items : items[i].cluster = clusters[k].id})
        /\ SizeSum(clusters) = Len(items) - Cardinality(NoiseItems)

\* two clusters met in descending order of id
C6_Witness ==
    /\ pc = "clustered"
    /\ labels = <<1, 0>>
    /\ Len(clusters) = 2
    /\ clusters[1].id = 0 /\ clusters[2].id = 1
    /\ clusters[1].size = 1 /\ clusters[2].size = 1

\* C9: every label in a cluster record, whichever path produced it, is one
\* non-empty label without the character "/".
C9_NoSlashInLabel ==
    pc = "clustered" =>
        \A k \in DOMAIN clusters :
            /\ clusters[k].label # <<>>
            /\ "/" \notin Range(clusters[k].label)

\* an image run with a zero-shot label of two words on one cluster and, on
\* the other, whose image does not open, the label from its path
C9_Witness ==
    /\ pc = "clustered"
    /\ mode = "image"
    /\ Len(clusters) = 2
    /\ clusters[1].label = <<"B", "o", "o", "k", " ", "C", "o", "v", "e", "r">>
    /\ clusters[2].label = <<"C", "a", "t", "s">>
    /\ \E i \in DOMAIN items : "/" \in Range(items[i].content)

-----------------------------------------------------------------------------
(* The filename labeller on its own: the paths of a cluster *)

MaxPathRun == 41

MaxPathTail == 2

\* "/x/Cats_DOGS.gif"
PATH_TIE ==
    <<"/", "x", "/", "C", "a", "t", "s", "_", "D", "O", "G", "S", ".", "g", "i", "f">>

\* "/dogs/dogs.png"
PATH_DOGS ==
    <<"/", "d", "o", "g", "s", "/", "d", "o", "g", "s", ".", "p", "n", "g">>

\* "photo_final.jpeg"
PATH_JARGON ==
    <<"p", "h", "o", "t", "o", "_", "f", "i", "n", "a", "l", ".", "j", "p", "e", "g">>

FallbackPaths == {PATH_TIE, PATH_DOGS, PATH_JARGON, PATH_BARE}

\* the paths of a cluster: a run of equal paths followed by another run
PathRuns(p1, n1, p2, n2) == [i \in 1..(n1 + n2) |-> IF i <= n1 THEN p1 ELSE p2]

InitFallbackLabel ==
    /\ pc = "paths"
    /\ \/ items = NO_PATHS
       \/ \E p1 \in FallbackPaths, p2 \in FallbackPaths :
            \E n1 \in 0..MaxPathRun, n2 \in 0..MaxPathTail :
              items = PathRuns(p1, n1, p2, n2)
    /\ mode = "image"
    /\ env = NoEnv
    /\ label = <<>>
    /\ clusters = <<>>
    /\ species = <<>>
    /\ similarity = <<>>
    /\ distances = <<>>
    /\ internals = NoInternals
    /\ phylogeny = NoPhylogeny
    /\ coords = <<>>
    /\ labels = <<>>
    /\ files = NoFiles
    /\ data = NoData

FallbackImageLabel ==
    /\ pc = "paths"
    /\ label' = fallback_image_label(items)
    /\ pc' = "labelled"
    /\ UNCHANGED <<items, clusters, species, phyloVars, mode, env, coords, labels, diskVars>>

NextFallbackLabel == FallbackImageLabel

SpecFallbackLabel == InitFallbackLabel /\ [][NextFallbackLabel]_vars

-----------------------------------------------------------------------------
(* Properties of the filename label *)

\* the paths the claim lets the label depend on: the first 40, none when the
\* list is missing
FirstForty == IF items = NO_PATHS THEN <<>> ELSE SubSeq(items, 1, Min2(40, Len(items)))

AZ == {"a", "b", "c", "d", "e", "f", "g", "h", "i", "j", "k", "l", "m", "n", "o", "p", "q",
       "r", "s", "t", "u", "v", "w", "x", "y", "z"}

\* positions a..b of the lower-cased path low are a maximal run of letters a-z
IsRun(low, a, b) ==
    /\ a <= b
    /\ \A k \in a..b : low[k] \in AZ
    /\ (a > 1 => low[a - 1] \notin AZ)
    /\ (b < Len(low) => low[b + 1] \notin AZ)

\* the runs of one path as <<first position, text>>
RunsOf(path) ==
    LET low == Lower(path)
    IN {<<ab[1], SubSeq(low, ab[1], ab[2])>> :
           ab \in {xy \in (DOMAIN low) \X (DOMAIN low) : IsRun(low, xy[1], xy[2])}}

\* the runs of the first 40 paths as <<path index, first position, text>>
RunsMet ==
    LET runs == [path \in Range(FirstForty) |-> RunsOf(path)]
    IN UNION {{<<i, r[1], r[2]>> : r \in runs[FirstForty[i]]} : i \in DOMAIN FirstForty}

RunSurvives(t) == Len(t) >= 4 /\ t \notin FALLBACK_STOP

RunCount(met, t) == Cardinality({r \in met : r[3] = t})

\* run t is counted for the first time before run u is
FirstBefore(met, t, u) ==
    \E r \in met :
        /\ r[3] = t
        /\ \A q \in met : q[3] = u =>
               (r[1] < q[1] \/ (r[1] = q[1] /\ r[2] <= q[2]))

Capitalized(t) == [k \in DOMAIN t |-> IF k = 1 THEN ToUpper(t[k]) ELSE t[k]]

\* C11: the label is the title-cased run of letters a-z with the highest
\* count among the runs of the first 40 lower-cased paths that have at least 4
\* characters and are not stopwords, the earliest-counted winning ties; when
\* no run survives, also for an empty or missing list, it is "Images".
C11_FallbackLabel ==
    pc = "labelled" =>
        LET met  == RunsMet
            kept == {r[3] : r \in {q \in met : RunSurvives(q[3])}}
            n    == [t \in kept |-> RunCount(met, t)]
        IN /\ kept = {} => label = <<"I", "m", "a", "g", "e", "s">>
           /\ kept # {} =>
                \E t \in kept :
                    /\ label = Capitalized(t)
                    /\ \A u \in kept :
                         \/ n[u] < n[t]
                         \/ n[u] = n[t] /\ FirstBefore(met, t, u)

\* forty paths tie cats with dogs and cats, counted first, wins; the
\* forty-first path would make dogs the most frequent run if it were counted
C11_Witness ==
    /\ pc = "labelled"
    /\ items # NO_PATHS
    /\ Len(items) = 41
    /\ \A i \in 1..40 : items[i] = PATH_TIE
    /\ items[41] = PATH_DOGS
    /\ label = <<"C", "a", "t", "s">>

-----------------------------------------------------------------------------
(* Properties of image label generation *)

\* the content paths of the items of cluster record k, in input order
PathsOfCluster(k) ==
    LET order == SortedSeq({i \in DOMAIN items : labels[i] = clusters[k].id})
    IN [j \in DOMAIN order |-> items[order[j]].content]

\* none of the first five paths of the cluster opens
NoneOpens(paths) ==
    \A j \in DOMAIN paths : j <= 5 => paths[j] \notin env.decodable

\* C12: image label generation never raises: whatever the combination of
\* model loaded or not, images decodable or not and torch importable or not,
\* every cluster gets a label, and when the model is unavailable or no sampled
\* image opens the label is the one the filename heuristic computes.
C12_ImageLabelNeverRaises ==
    mode = "image" =>
        /\ pc # "raised"
        /\ pc = "clustered" =>
             \A k \in DOMAIN clusters :
                 (~env.model_loaded \/ NoneOpens(PathsOfCluster(k))) =>
                     clusters[k].label = fallback_image_label(PathsOfCluster(k))

-----------------------------------------------------------------------------
(* Properties of text label sampling under read failures *)

\* the item has no cached preview and its content cannot be read
Unreadable(item) == item.preview = <<>> /\ item.content \notin env.readable

\* the sampled items without the unreadable ones
RemainingSampled == SelectSeq(FirstTen, LAMBDA item : ~Unreadable(item))

\* C13: an item with no cached preview whose content cannot be read is
\* skipped during text label sampling: the label is the one computed from the
\* remaining sampled items alone.
C13_UnreadableSkipped ==
    pc = "labelled" =>
        label = get_text_cluster_label(RemainingSampled, env)

\* unreadable items come first in the sample and the readable ones after them
\* still decide the label
C13_Witness ==
    /\ pc = "labelled"
    /\ Len(items) >= 3
    /\ Unreadable(items[1])
    /\ Unreadable(items[2])
    /\ items[Len(items)].preview = PREVIEW_FOX
    /\ Len(RemainingSampled) < Len(FirstTen)
    /\ label = <<"Q", "u", "i", "c", "k">>

-----------------------------------------------------------------------------
(* The disk.  A document on disk is [mode, version, chunks]: the "mode" field *)
(* it carries, whether this run or an earlier one wrote it, and how many of   *)
(* the MaxChunks parts of its JSON text the file holds.  A path is            *)
(* [dir, name], the name a string of characters.                              *)

\* the parts json.dump's output reaches the file in
MaxChunks == 2

Modes == {"image", "text"}

\* the characters of a mode string
ModeChars(m) == IF m = "text" THEN <<"t", "e", "x", "t">> ELSE <<"i", "m", "a", "g", "e">>

DATA_DIR == "data"

FRONTEND_PUBLIC_DATA_DIR == "frontend/public/data"

JSON_EXT == <<".", "j", "s", "o", "n">>

EMBEDDINGS_CLUSTERED == <<"e", "m", "b", "e", "d", "d", "i", "n", "g", "s", "_", "c", "l", "u", "s", "t", "e", "r",
      "e", "d">>

EMBEDDINGS_PREFIX == <<"e", "m", "b", "e", "d", "d", "i", "n", "g", "s", "_">>

TEXT_SUFFIX == <<"_", "t", "e", "x", "t">>

\* suffix = "_text" if mode == "text" else ""
Suffix(m) == IF m = "text" THEN TEXT_SUFFIX ELSE <<>>

\* DATA_DIR / f"embeddings_clustered{suffix}.json"
ClusteredPath(m) ==
    [dir |-> DATA_DIR, name |-> EMBEDDINGS_CLUSTERED \o Suffix(m) \o JSON_EXT]

\* "embeddings_text.json" if mode == "text" else "embeddings_image.json"
PublicName(m) ==
    IF m = "text" THEN <<"e", "m", "b", "e", "d", "d", "i", "n", "g", "s", "_", "t", "e", "x", "t", ".", "j", "s",
      "o", "n">>
    ELSE <<"e", "m", "b", "e", "d", "d", "i", "n", "g", "s", "_", "i", "m", "a", "g", "e", ".", "j",
      "s", "o", "n">>

PublicPath(m) == [dir |-> FRONTEND_PUBLIC_DATA_DIR, name |-> PublicName(m)]

\* DATA_DIR / f"embeddings_clustered_{mode}.json"
ModeClusteredPath(m) ==
    [dir |-> DATA_DIR, name |-> EMBEDDINGS_CLUSTERED \o <<"_">> \o ModeChars(m) \o JSON_EXT]

\* DATA_DIR / "embeddings_clustered.json"
GenericClusteredPath == [dir |-> DATA_DIR, name |-> EMBEDDINGS_CLUSTERED \o JSON_EXT]

\* load_clustered_data: the mode's own file when it exists, else the generic one
LoadClusteredPath(m, fs) ==
    IF ModeClusteredPath(m) \in DOMAIN fs THEN ModeClusteredPath(m) ELSE GenericClusteredPath

\* DATA_DIR / f"embeddings_{mode}.json"
FinalPath(m) == [dir |-> DATA_DIR, name |-> EMBEDDINGS_PREFIX \o ModeChars(m) \o JSON_EXT]

\* a document an earlier run left complete
OldDocument(m) == [mode |-> m, version |-> "old", chunks |-> MaxChunks]

\* open(path, "w"): the file exists and is empty
OpenForWriting(fs, path, m) ==
    [q \in DOMAIN fs \cup {path} |->
        IF q = path THEN [mode |-> m, version |-> "new", chunks |-> 0] ELSE fs[q]]

\* one more part of json.dump's output reaches the file
WriteChunk(fs, path) == [fs EXCEPT ![path].chunks = @ + 1]

\* the disk that holds exactly the documents of the paths in S
Disk(S, doc) == [q \in S |-> doc[q]]

\* the process is killed: nothing more is written
Kill ==
    /\ pc \notin {"done", "raised", "killed"}
    /\ pc' = "killed"
    /\ UNCHANGED <<items, clusters, species, phyloVars, clusterVars>>

-----------------------------------------------------------------------------
(* phylogeny.main as a run over the disk (lines 178-216).  An item carries    *)
(* the set has of the keys it holds; a missing key raises KeyError where the  *)
(* code subscripts it.  Both clustered documents hold the same items.         *)

MaxMainN == 2

MainTimestamps == {0, 40 * Day}

RequiredFields == {"timestamp", "embedding", "cluster"}

\* the key sets an item can arrive with: complete, or one required key missing
KeySets == {RequiredFields} \cup {RequiredFields \ {field} : field \in RequiredFields}

MainItem(i, ts, has) ==
    [id |-> Names[i], timestamp |-> ts, embedding |-> <<100, 0>>, cluster |-> 0, has |-> has]

Has(item, field) == field \in item.has

\* a wrong check: an item without its cluster key passes
BuildRaises_IgnoresCluster(its) ==
    \/ \E i \in DOMAIN its : ~Has(its[i], "embedding")
    \/ \E i \in DOMAIN its : ~Has(its[i], "timestamp")
    \/ its = <<>>

\* lines 185-195 raise: item["embedding"] (185), item["timestamp"] (186),
\* np.argmin of an empty list (124), item["cluster"] (161)
BuildRaises(its) ==
    \/ \E i \in DOMAIN its : ~Has(its[i], "embedding")
    \/ \E i \in DOMAIN its : ~Has(its[i], "timestamp")
    \/ its = <<>>
    \/ \E i \in DOMAIN its : ~Has(its[i], "cluster")

\* for item in data["items"]: del item["embedding"]
StripEmbeddings(its) ==
    [i \in DOMAIN its |-> [its[i] EXCEPT !.has = @ \ {"embedding"}]]

\* the documents an earlier run of the pipeline can have left under data/
ClusteredDocs ==
    [q \in {GenericClusteredPath, ClusteredPath("text"), FinalPath("image"), FinalPath("text")} |->
        IF q \in {ClusteredPath("text"), FinalPath("text")}
        THEN OldDocument("text") ELSE OldDocument("image")]

InitPhylogenyMain ==
    /\ pc = "start"
    /\ mode \in Modes
    /\ \E n \in 0..MaxMainN :
         \E ts \in [1..n -> MainTimestamps], has \in [1..n -> KeySets] :
           items = [i \in 1..n |-> MainItem(i, ts[i], has[i])]
    /\ clusters = SampleClusters({0}, items)
    /\ \E inputs \in SUBSET {GenericClusteredPath, ClusteredPath("text")} :
         \E outputs \in {{}, {FinalPath("image"), FinalPath("text")}} :
           files = Disk(inputs \cup outputs, ClusteredDocs)
    /\ data = NoData
    /\ species = <<>>
    /\ similarity = <<>>
    /\ distances = <<>>
    /\ internals = NoInternals
    /\ phylogeny = NoPhylogeny
    /\ env = NoEnv
    /\ coords = <<>>
    /\ labels = <<>>
    /\ label = <<>>

\* data = load_clustered_data(mode); mode = data.get("mode", "image")
LoadClusteredData ==
    /\ pc = "start"
    /\ LET path == LoadClusteredPath(mode, files) IN
       IF path \notin DOMAIN files \/ files[path].chunks # MaxChunks
       THEN /\ pc' = "raised"
            /\ UNCHANGED data
       ELSE /\ pc' = "read"
            /\ data' = [path |-> path, mode |-> files[path].mode,
                        version |-> files[path].version]
    /\ UNCHANGED <<items, clusters, species, phyloVars, mode, env, coords, labels, label, files>>

\* lines 185-195
MainBuildPhylogeny ==
    /\ pc = "read"
    /\ IF BuildRaises(items)
       THEN /\ pc' = "raised"
            /\ UNCHANGED phyloVars
       ELSE /\ pc' = "built"
            /\ similarity' = compute_similarity_matrix(ItemEmbeddings(items))
            /\ distances' = build_constrained_graph(similarity', ItemTimestamps(items))
            /\ \E F \in MinimumSpanningTrees(FallbackDistances(distances')) :
                 LET t == TreeInternals(distances', items, F) IN
                 /\ internals' = t
                 /\ phylogeny' = [nodes   |-> BuildNodes(items, t.parent),
                                  root_id |-> items[t.root_idx].id]
    /\ UNCHANGED <<items, clusters, species, clusterVars>>

\* lines 199-209
MainGenerateSpecies ==
    /\ pc = "built"
    /\ species' = generate_species(items, clusters)
    /\ items' = StripEmbeddings(items)
    /\ pc' = "assembled"
    /\ UNCHANGED <<clusters, phyloVars, clusterVars>>

\* with open(output_path, "w") as f
OpenFinal ==
    /\ pc = "assembled"
    /\ files' = OpenForWriting(files, FinalPath(data.mode), data.mode)
    /\ pc' = "writing_final"
    /\ UNCHANGED <<items, clusters, species, phyloVars, mode, env, coords, labels, label, data>>

\* json.dump(data, f)
DumpFinal ==
    /\ pc = "writing_final"
    /\ files[FinalPath(data.mode)].chunks < MaxChunks
    /\ files' = WriteChunk(files, FinalPath(data.mode))
    /\ UNCHANGED <<pc, items, clusters, species, phyloVars, mode, env, coords, labels, label, data>>

\* the with block is left
CloseFinal ==
    /\ pc = "writing_final"
    /\ files[FinalPath(data.mode)].chunks = MaxChunks
    /\ pc' = "done"
    /\ UNCHANGED <<items, clusters, species, phyloVars, clusterVars>>

NextPhylogenyMain ==
    \/ LoadClusteredData
    \/ MainBuildPhylogeny
    \/ MainGenerateSpecies
    \/ OpenFinal
    \/ DumpFinal
    \/ CloseFinal
    \/ Kill

SpecPhylogenyMain == InitPhylogenyMain /\ [][NextPhylogenyMain]_vars

-----------------------------------------------------------------------------
(* cluster.main as a run over the disk (lines 217-273): the clustering run    *)
(* followed by the two writes.                                                *)

\* the documents an earlier run of cluster.main can have left
ClusterOutputs ==
    [q \in {ClusteredPath("image"), ClusteredPath("text"), PublicPath("image"), PublicPath("text")} |->
        IF q \in {ClusteredPath("text"), PublicPath("text")}
        THEN OldDocument("text") ELSE OldDocument("image")]

InitClusterMain ==
    /\ pc = "loaded"
    /\ \E n \in 1..MaxMainN :
         \/ /\ mode = "image"
            /\ items = [i \in 1..n |-> ImageItem(i, PATH_CATS)]
            /\ \E loaded \in BOOLEAN, torch \in BOOLEAN, decodable \in SUBSET {PATH_CATS} :
                 /\ loaded => torch
                 /\ env = ImageEnv(loaded, torch, decodable)
         \/ /\ mode = "text"
            /\ \E preview \in [1..n -> {PREVIEW_FOX, PREVIEW_EMPTY}] :
                 items = [i \in 1..n |-> TextItem(Names[i], preview[i])]
            /\ \E readable \in SUBSET {TEXT_PATH} : env = TextEnv(readable)
    /\ \E outputs \in {{}, DOMAIN ClusterOutputs} : files = Disk(outputs, ClusterOutputs)
    /\ data = NoData
    /\ coords = <<>>
    /\ labels = <<>>
    /\ clusters = <<>>
    /\ label = <<>>
    /\ species = <<>>
    /\ similarity = <<>>
    /\ distances = <<>>
    /\ internals = NoInternals
    /\ phylogeny = NoPhylogeny

\* with open(output_path, "w") as f (line 258)
OpenClustered ==
    /\ pc = "clustered"
    /\ files' = OpenForWriting(files, ClusteredPath(mode), mode)
    /\ pc' = "writing_clustered"
    /\ UNCHANGED <<items, clusters, species, phyloVars, mode, env, coords, labels, label, data>>

\* json.dump(output, f) (line 259)
DumpClustered ==
    /\ pc = "writing_clustered"
    /\ files[ClusteredPath(mode)].chunks < MaxChunks
    /\ files' = WriteChunk(files, ClusteredPath(mode))
    /\ UNCHANGED <<pc, items, clusters, species, phyloVars, mode, env, coords, labels, label, data>>

CloseClustered ==
    /\ pc = "writing_clustered"
    /\ files[ClusteredPath(mode)].chunks = MaxChunks
    /\ pc' = "saved_clustered"
    /\ UNCHANGED <<items, clusters, species, phyloVars, clusterVars>>

\* with open(public_path, "w") as f (line 268)
OpenPublic ==
    /\ pc = "saved_clustered"
    /\ files' = OpenForWriting(files, PublicPath(mode), mode)
    /\ pc' = "writing_public"
    /\ UNCHANGED <<items, clusters, species, phyloVars, mode, env, coords, labels, label, data>>

\* json.dump(output, f) (line 269)
DumpPublic ==
    /\ pc = "writing_public"
    /\ files[PublicPath(mode)].chunks < MaxChunks
    /\ files' = WriteChunk(files, PublicPath(mode))
    /\ UNCHANGED <<pc, items, clusters, species, phyloVars, mode, env, coords, labels, label, data>>

ClosePublic ==
    /\ pc = "writing_public"
    /\ files[PublicPath(mode)].chunks = MaxChunks
    /\ pc' = "done"
    /\ UNCHANGED <<items, clusters, species, phyloVars, clusterVars>>

NextClusterMain ==
    \/ RunUmap
    \/ RunClustering
    \/ OpenClustered
    \/ DumpClustered
    \/ CloseClustered
    \/ OpenPublic
    \/ DumpPublic
    \/ ClosePublic
    \/ Kill

\* a run of either stage
InitStages == InitClusterMain \/ InitPhylogenyMain

NextStages == NextClusterMain \/ NextPhylogenyMain

SpecStages == InitStages /\ [][NextStages]_vars

-----------------------------------------------------------------------------
(* Properties of the output files *)

\* the file name without its ".json"
Stem(name) == SubSeq(name, 1, Len(name) - 5)

EndsWith(str, suffix) ==
    /\ Len(str) >= Len(suffix)
    /\ SubSeq(str, Len(str) - Len(suffix) + 1, Len(str)) = suffix

\* the files this run has opened for writing
WrittenFiles == {q \in DOMAIN files : files[q].version = "new"}

\* the mode of the run: the one main was called with, and in phylogeny.main
\* the one of the loaded document (line 182)
RunMode == IF data = NoData THEN mode ELSE data.mode

\* C14: every file written for an image-mode run has an unsuffixed filename
\* (its stem ends with neither _image nor _text) and every file written for a
\* text-mode run has a stem that ends with _text, in the clustering stage and
\* in the phylogeny stage.
C14_OutputNaming ==
    \A q \in WrittenFiles :
        IF RunMode = "text"
        THEN EndsWith(Stem(q.name), <<"_", "t", "e", "x", "t">>)
        ELSE /\ ~EndsWith(Stem(q.name), <<"_", "i", "m", "a", "g", "e">>)
             /\ ~EndsWith(Stem(q.name), <<"_", "t", "e", "x", "t">>)

\* C15: at every point of cluster.main and phylogeny.main, also when the run
\* fails or is killed, each output file on disk is either the complete
\* previous version or the complete new version.
C15_NoHalfWrittenFile ==
    \A q \in DOMAIN files :
        /\ files[q].version \in {"old", "new"}
        /\ files[q].chunks = MaxChunks

\* the loaded item list is empty or an item lacks a required field
Malformed(its) ==
    \/ its = <<>>
    \/ \E i \in DOMAIN its :
         \E field \in {"timestamp", "embedding", "cluster"} : field \notin its[i].has

\* C16: on an empty item list, or an item missing its timestamp, embedding
\* or cluster field, phylogeny.main raises before anything is written: the
\* step after the load ends the run with the disk unchanged, and a run that
\* has raised has created or modified no file.
C16_MalformedFailsBeforeWrite ==
    /\ [][(pc = "read" /\ Malformed(items)) =>
              (pc' \in {"raised", "killed"} /\ files' = files)]_vars
    /\ [](pc = "raised" => WrittenFiles = {})

\* a run over two items, the second without its cluster field, has raised
\* after loading a complete document, with an earlier final file on disk
C16_Witness ==
    /\ pc = "raised"
    /\ data # NoData
    /\ Len(items) = 2
    /\ items[1].has = {"timestamp", "embedding", "cluster"}
    /\ items[2].has = {"timestamp", "embedding"}
    /\ FinalPath(data.mode) \in DOMAIN files
    /\ files[FinalPath(data.mode)] = OldDocument(data.mode)

-----------------------------------------------------------------------------
(* The two-group scenario: six items, three in each of two groups.  An item's *)
(* cluster field holds its group.                                             *)

\* which group the item at each position belongs to
GroupPatterns == {<<1, 1, 1, 2, 2, 2>>, <<1, 2, 1, 2, 1, 2>>, <<2, 2, 2, 1, 1, 1>>}

\* unit vectors up to rounding; inside a group the similarities are 1.0 (a
\* duplicate), 0.9997 and 0.99, across the groups 0, 0.14 and 0.2772
GroupEmbeddings == << {<<100, 0>>, <<99, 14>>}, {<<0, 100>>, <<14, 99>>} >>

\* group 1 lies within days 0..10, group 2 within days 210..220
GroupTimestamps == << {0, 10 * Day}, {210 * Day, 220 * Day} >>

InitScenario ==
    /\ pc = "loaded"
    /\ \E group \in GroupPatterns :
         \E ts \in [1..6 -> GroupTimestamps[1] \cup GroupTimestamps[2]],
            em \in [1..6 -> GroupEmbeddings[1] \cup GroupEmbeddings[2]] :
           /\ \A i \in 1..6 : ts[i] \in GroupTimestamps[group[i]]
           /\ \A i \in 1..6 : em[i] \in GroupEmbeddings[group[i]]
           /\ items = [i \in 1..6 |->
                         [id |-> Names[i], timestamp |-> ts[i],
                          embedding |-> em[i], cluster |-> group[i]]]
    /\ similarity = <<>>
    /\ distances = <<>>
    /\ internals = NoInternals
    /\ phylogeny = NoPhylogeny
    /\ clusters = <<>>
    /\ species = <<>>
    /\ mode = "image"
    /\ env = NoEnv
    /\ coords = <<>>
    /\ labels = <<>>
    /\ label = <<>>
    /\ files = NoFiles
    /\ data = NoData

SpecScenario == InitScenario /\ [][NextPhylogeny]_vars

\* the position of the node a parent pointer names (ids are distinct)
ParentIndex(i) == CHOOSE j \in DOMAIN Nodes : Nodes[j].id = Nodes[i].parent

\* the parent-child links whose two ends lie in different groups
CrossLinks ==
    {i \in DOMAIN Nodes :
        Nodes[i].parent # NoneId /\ Nodes[ParentIndex(i)].cluster # Nodes[i].cluster}

\* C17: for 6 items in two groups of 3, with similarity above 0.9 inside each
\* group and below 0.3 across, timestamps within 10 days inside each group and
\* at least 200 days apart across, the tree has the earliest item as root and
\* exactly one parent-child link that crosses between the groups.
C17_TwoGroupScenario ==
    ( /\ pc = "tree"
      /\ N = 6
      /\ \A g \in {1, 2} : Cardinality({i \in 1..N : items[i].cluster = g}) = 3
      /\ \A i, j \in 1..N : (i # j /\ items[i].cluster = items[j].cluster) =>
             (similarity[i][j] > 9000 /\ TimeDiff(i, j) <= 10 * 86400)
      /\ \A i, j \in 1..N : items[i].cluster # items[j].cluster =>
             (similarity[i][j] < 3000 /\ TimeDiff(i, j) >= 200 * 86400) )
    => /\ \E r \in 1..N :
            /\ RootNodes = {r}
            /\ \A j \in 1..N : items[r].timestamp <= items[j].timestamp
       /\ Cardinality(CrossLinks) = 1

-----------------------------------------------------------------------------
(* Properties of the traversal and of the fallback links *)

\* the nodes within k edges of the root over the symmetrized spanning tree
RECURSIVE WithinHops(_)
WithinHops(k) ==
    IF k = 0 THEN {internals.root_idx}
    ELSE LET near == WithinHops(k - 1)
         IN near \cup {e[2] : e \in {f \in internals.mst : f[1] \in near}}
                 \cup {e[1] : e \in {f \in internals.mst : f[2] \in near}}

\* the number of tree edges between the root and a node reachable from it
Hops(i) == CHOOSE k \in 0..N : i \in WithinHops(k) /\ (k > 0 => i \notin WithinHops(k - 1))

ReachableOverMst == Closure(internals.mst, {internals.root_idx})

\* C18: every node the breadth-first traversal reaches has as parent a
\* neighbour in the symmetrized spanning tree that is one step closer to the
\* root; a node gets the root as forced parent only if it is unreachable from
\* the root over the symmetrized spanning tree; and when all pairwise
\* distances are strictly positive no node is force-attached.
C18_ParentIsDiscoverer ==
    pc = "tree" =>
        /\ \A i \in 1..N : (internals.visited[i] /\ i # internals.root_idx) =>
               LET p == internals.parent[i]
               IN /\ <<Min2(p, i), Max2(p, i)>> \in internals.mst
                  /\ Hops(p) + 1 = Hops(i)
        /\ \A i \in 1..N : ~internals.visited[i] =>
               /\ internals.parent[i] = internals.root_idx
               /\ i \notin ReachableOverMst
        /\ (\A i, j \in 1..N : i # j => Positive(distances[i][j]))
           => \A i \in 1..N : internals.visited[i]

\* C19: the tree is time-respecting: the parent of every non-root node has a
\* timestamp that is not later than the node's own.
C19_TimeRespecting ==
    pc = "tree" =>
        \A i \in 1..N : Nodes[i].parent # NoneId =>
            \A j \in 1..N : Nodes[j].id = Nodes[i].parent =>
                Nodes[j].timestamp <= Nodes[i].timestamp

\* the parent-child pairs that have no edge in the constrained graph
FallbackLinks ==
    {i \in 1..N : Nodes[i].parent # NoneId /\ distances[i][ParentIndex(i)].inf}

\* C20: every real edge weight is below the fallback distance 1000, and the
\* number of parent-child pairs with no edge in the constrained graph is the
\* number of connected components of that graph minus one.
C20_FallbackLinksOnlyWhereForced ==
    pc = "tree" =>
        /\ \A i, j \in 1..N : ~distances[i][j].inf =>
               Less(distances[i][j], Fin(FALLBACK_DISTANCE * ONE, 0))
        /\ Cardinality(FallbackLinks) = NumComponents(ConstrainedEdges, N) - 1

-----------------------------------------------------------------------------
(* One run of run_pipeline over the disk (main.py, lines 10-24): embed.main,  *)
(* then cluster.main, then phylogeny.main, each called with the run's mode.   *)
(* data is the header of the document the running stage loaded.  The items    *)
(* are those of the run whichever document a stage loads: data tells which     *)
(* document it was.                                                            *)

\* DATA_DIR / f"embeddings_raw_{mode}.json" (embed.py line 167, cluster.py line 32)
ModeRawPath(m) ==
    [dir |-> DATA_DIR,
     name |-> EMBEDDINGS_PREFIX \o <<"r", "a", "w", "_">> \o ModeChars(m) \o JSON_EXT]

\* DATA_DIR / "embeddings_raw.json"
GenericRawPath == [dir |-> DATA_DIR, name |-> EMBEDDINGS_PREFIX \o <<"r", "a", "w">> \o JSON_EXT]

\* load_embeddings: the mode's own file when it exists, else the generic one
LoadEmbeddingsPath(m, fs) ==
    IF ModeRawPath(m) \in DOMAIN fs THEN ModeRawPath(m) ELSE GenericRawPath

\* the documents earlier runs, of this or an older version of the pipeline,
\* can have left under data/
PipelineDocs ==
    [q \in {ModeRawPath("image"), ModeRawPath("text"), GenericRawPath,
            GenericClusteredPath, ModeClusteredPath("image"), ModeClusteredPath("text")} |->
        IF q \in {ModeRawPath("text"), ModeClusteredPath("text")}
        THEN OldDocument("text") ELSE OldDocument("image")]

InitPipeline ==
    /\ pc = "pipeline"
    /\ \/ /\ mode = "image"
          /\ items = [i \in 1..1 |-> ImageItem(i, PATH_CATS)]
          /\ \E loaded \in BOOLEAN, torch \in BOOLEAN, decodable \in SUBSET {PATH_CATS} :
               /\ loaded => torch
               /\ env = ImageEnv(loaded, torch, decodable)
       \/ /\ mode = "text"
          /\ \E preview \in {PREVIEW_FOX, PREVIEW_EMPTY} :
               items = [i \in 1..1 |-> TextItem(Names[i], preview)]
          /\ \E readable \in SUBSET {TEXT_PATH} : env = TextEnv(readable)
    /\ \E stale \in SUBSET DOMAIN PipelineDocs : files = Disk(stale, PipelineDocs)
    /\ data = NoData
    /\ coords = <<>>
    /\ labels = <<>>
    /\ clusters = <<>>
    /\ label = <<>>
    /\ species = <<>>
    /\ similarity = <<>>
    /\ distances = <<>>
    /\ internals = NoInternals
    /\ phylogeny = NoPhylogeny

\* embed_main(mode=mode, ...): embed.py lines 167-169 write the raw document
EmbedMain ==
    /\ pc = "pipeline"
    /\ files' = [OpenForWriting(files, ModeRawPath(mode), mode)
                    EXCEPT ![ModeRawPath(mode)].chunks = MaxChunks]
    /\ pc' = "embedded"
    /\ UNCHANGED <<items, clusters, species, phyloVars, mode, env, coords, labels, label, data>>

\* cluster_main(mode=mode): data = load_embeddings(mode) (cluster.py line 218)
LoadEmbeddings ==
    /\ pc = "embedded"
    /\ LET path == LoadEmbeddingsPath(mode, files) IN
       IF path \notin DOMAIN files
       THEN /\ pc' = "raised"
            /\ UNCHANGED data
       ELSE /\ pc' = "loaded"
            /\ data' = [path |-> path, mode |-> files[path].mode,
                        version |-> files[path].version]
    /\ UNCHANGED <<items, clusters, species, phyloVars, mode, env, coords, labels, label, files>>

\* phylogeny_main(mode=mode) is called when cluster_main has returned; its
\* items carry the fields embed.py lines 96-102 gave them and the cluster of
\* cluster.py line 245
CallPhylogenyMain ==
    /\ pc = "done"
    /\ data.path \in {ModeRawPath(mode), GenericRawPath}
    /\ items' = [i \in DOMAIN items |->
                    [MainItem(i, 0, RequiredFields) EXCEPT !.cluster = items[i].cluster]]
    /\ pc' = "start"
    /\ UNCHANGED <<clusters, species, phyloVars, clusterVars>>

NextPipeline ==
    \/ EmbedMain
    \/ LoadEmbeddings
    \/ RunUmap
    \/ RunClustering
    \/ OpenClustered
    \/ DumpClustered
    \/ CloseClustered
    \/ OpenPublic
    \/ DumpPublic
    \/ ClosePublic
    \/ CallPhylogenyMain
    \/ LoadClusteredData
    \/ MainBuildPhylogeny
    \/ MainGenerateSpecies
    \/ OpenFinal
    \/ DumpFinal
    \/ CloseFinal

SpecPipeline == InitPipeline /\ [][NextPipeline]_vars

-----------------------------------------------------------------------------
(* Properties of the pipeline run *)

\* C21: in one run of run_pipeline, for either mode and whatever files are
\* already in the data directory, cluster.main loads the raw embeddings file
\* embed.main wrote in this run, and phylogeny.main loads the clustered file
\* cluster.main wrote in this run, never a document of an earlier run.
C21_StagesReadFreshFiles ==
    /\ pc = "loaded" => (data.path = ModeRawPath(mode) /\ data.version = "new")
    /\ pc = "read" => (data.path = ClusteredPath(mode) /\ data.version = "new")

====
